---- MODULE Spec2Model ----
(***************************************************************************)
(* ADGM corporate agent: the paragraph matcher and note inserter of        *)
(* docx_utils.py and the run of app.py that feeds it.                      *)
(*                                                                         *)
(* Text is modelled as TLA+ strings over ASCII.  A Python value that may   *)
(* be a string, a number or None (a field of an issue record that came     *)
(* out of json.loads) is a record [t |-> type, v |-> its str()].           *)
(***************************************************************************)
EXTENDS Integers, Sequences, FiniteSets, TLC

VARIABLES
    pc,          \* position of the script / of the function under check
    fdoc,        \* _find_paragraph_index_for_issue: doc.paragraphs
    fsection,    \*   its section argument
    fissue,      \*   its issue_text argument
    fresult,     \*   its return value
    doc,         \* insert_review_notes_and_save: doc.paragraphs, as it grows
    issues,      \*   the issues argument
    k,           \*   the number of issues the loop has processed
    orig,        \*   (history) doc.paragraphs as loaded
    log,         \*   (history) per processed issue, the branch taken
    uploaded_files,  \* app.py: the uploads, each a name and the bytes sent
    files,           \* the files of tmpdir, by name
    stored,          \* (history) files as the uploads were saved
    docs,            \* the parsed and classified documents
    rag_loaded,      \* rag_utils was imported
    coll_present,    \* the vector store holds the reference collection
    key_present,     \* GEMINI_API_KEY is set and the Gemini library is there
    store_answers,   \* the vector store answers this run's queries (or they raise)
    rag_available,
    issues_found,
    flagged_docs_for_rag,
    prompt,          \* combined_docs_text of the one Gemini prompt
    gemini_response,
    report,
    out_files,
    notices,         \* the documents st.error reported as failed
    annotations,     \* (history) per annotated document: doc_issues, result, outcome
    i_doc,           \* the number of documents the running loop has handled
    n_retrieve,      \* (history) calls of retrieve_relevant_clauses
    n_gemini,        \* (history) calls of call_gemini_with_context
    dp_types,        \* detect_process: its predicted_types argument
    dp_result,       \*   its return value
    cl_text,         \* classify_doc_type: its text argument
    cl_result        \*   its return value

findVars == <<fdoc, fsection, fissue, fresult>>
annVars == <<doc, issues, k, orig, log>>
clsVars == <<dp_types, dp_result, cl_text, cl_result>>
runVars == <<uploaded_files, files, stored, docs, rag_loaded, coll_present, key_present,
             store_answers,
             rag_available, issues_found, flagged_docs_for_rag, prompt, gemini_response, report,
             out_files, notices, annotations, i_doc, n_retrieve, n_gemini>>
vars == <<pc, fdoc, fsection, fissue, fresult, doc, issues, k, orig, log,
          uploaded_files, files, stored, docs, rag_loaded, coll_present, key_present,
          store_answers, rag_available, issues_found, flagged_docs_for_rag, prompt, gemini_response, report,
          out_files, notices, annotations, i_doc, n_retrieve, n_gemini,
          dp_types, dp_result, cl_text, cl_result>>

----------------------------------------------------------------------------
(* Python values *)

PyStr(s) == [t |-> "str", v |-> s]
PyInt(s) == [t |-> "int", v |-> s]
PyNone == [t |-> "None", v |-> "None"]
PyAbsent == [t |-> "absent", v |-> ""]

\* bool(x)
Truthy(x) == \/ x.t = "str" /\ x.v # ""
             \/ x.t = "int" /\ x.v # "0"

\* (x or "")
OrEmpty(x) == IF Truthy(x) THEN x ELSE PyStr("")

\* the sequences over S of length at most n
SeqsUpTo(S, n) == UNION {[1..m -> S] : m \in 0..n}

\* A paragraph of a document is its text and, as history, where it came from:
\* <<"orig", i>> for paragraph i of the document as loaded, <<"note", n>> for
\* the paragraph added for issue number n.
OrigPara(text, i) == [text |-> text, tag |-> <<"orig", i>>]
AsParagraphs(texts) == [i \in 1..Len(texts) |-> OrigPara(texts[i], i)]

----------------------------------------------------------------------------
(* Strings *)

Ch(s, i) == SubSeq(s, i, i)

UpperChars == {"A","B","C","D","E","F","G","H","I","J","K","L","M",
               "N","O","P","Q","R","S","T","U","V","W","X","Y","Z"}
LowerChars == {"a","b","c","d","e","f","g","h","i","j","k","l","m",
               "n","o","p","q","r","s","t","u","v","w","x","y","z"}
DigitChars == {"0","1","2","3","4","5","6","7","8","9"}

\* \w of the re module
WordChars == UpperChars \cup LowerChars \cup DigitChars \cup {"_"}

LowerOf ==
    [c \in UpperChars |->
        CASE c = "A" -> "a" [] c = "B" -> "b" [] c = "C" -> "c" [] c = "D" -> "d"
          [] c = "E" -> "e" [] c = "F" -> "f" [] c = "G" -> "g" [] c = "H" -> "h"
          [] c = "I" -> "i" [] c = "J" -> "j" [] c = "K" -> "k" [] c = "L" -> "l"
          [] c = "M" -> "m" [] c = "N" -> "n" [] c = "O" -> "o" [] c = "P" -> "p"
          [] c = "Q" -> "q" [] c = "R" -> "r" [] c = "S" -> "s" [] c = "T" -> "t"
          [] c = "U" -> "u" [] c = "V" -> "v" [] c = "W" -> "w" [] c = "X" -> "x"
          [] c = "Y" -> "y" [] c = "Z" -> "z"]

\* str.lower(), character by character (the string is halved rather than
\* walked so that a long text does not nest deeply)
RECURSIVE Lower(_)
Lower(s) ==
    IF Len(s) = 0 THEN ""
    ELSE IF Len(s) = 1 THEN (IF s \in UpperChars THEN LowerOf[s] ELSE s)
    ELSE LET h == Len(s) \div 2
         IN  Lower(SubSeq(s, 1, h)) \o Lower(SubSeq(s, h + 1, Len(s)))

\* tok in pl
Contains(tok, pl) ==
    \E i \in 1..(Len(pl) - Len(tok) + 1) : SubSeq(pl, i, i + Len(tok) - 1) = tok

SetMax(S) == CHOOSE x \in S : \A y \in S : y <= x
SetMin(S) == CHOOSE x \in S : \A y \in S : x <= y

IsWord(s, i) == Ch(s, i) \in WordChars

\* the first position from i on that holds a word character, Len(s) + 1 if none
RECURSIVE RunStart(_, _)
RunStart(s, i) == IF i > Len(s) \/ IsWord(s, i) THEN i ELSE RunStart(s, i + 1)

\* the last position of the run of word characters that holds position i
RECURSIVE RunEnd(_, _)
RunEnd(s, i) == IF i = Len(s) \/ ~IsWord(s, i + 1) THEN i ELSE RunEnd(s, i + 1)

RECURSIVE WordRuns(_, _)
RunsBetween(s, a, b) == <<SubSeq(s, a, b)>> \o WordRuns(s, b + 1)
RunsAt(s, a) == IF a > Len(s) THEN <<>> ELSE RunsBetween(s, a, RunEnd(s, a))

\* the maximal runs of word characters of s that start at position i or later
WordRuns(s, i) == RunsAt(s, RunStart(s, i))

\* re.split(r"\W+", s): the pieces between the runs of non-word characters,
\* with an empty piece in front of a leading run and behind a trailing one
ReSplit(s) ==
    IF s = "" THEN <<"">>
    ELSE (IF IsWord(s, 1) THEN <<>> ELSE <<"">>)
           \o WordRuns(s, 1)
           \o (IF IsWord(s, Len(s)) THEN <<>> ELSE <<"">>)

----------------------------------------------------------------------------
(* docx_utils._find_paragraph_index_for_issue *)

\* the token length a token must exceed
MinTokenLen == 3

\* best_idx = None
NoneIdx == -1

KeepLong(toks) == SelectSeq(toks, LAMBDA t : Len(t) > MinTokenLen)

\* [t for t in re.split(r"\W+", (x or "").lower()) if len(t) > 3]
Tokens(x) == KeepLong(ReSplit(Lower(OrEmpty(x).v)))

\* (x or "").lower() raises AttributeError on a truthy non-string
LowerRaises(x) == OrEmpty(x).t # "str"

RECURSIVE CountHitsInverted(_, _)
CountHitsInverted(toks, pl) ==
    IF toks = <<>> THEN 0
    ELSE (IF Contains(Head(toks), pl) THEN 0 ELSE 1) + CountHitsInverted(Tail(toks), pl)

RECURSIVE CountHits(_, _)
CountHits(toks, pl) ==
    IF toks = <<>> THEN 0
    ELSE (IF Contains(Head(toks), pl) THEN 1 ELSE 0) + CountHits(Tail(toks), pl)

SectionWeight == 2
IssueWeight == 1

ScoreIn(pl, section_tokens, issue_tokens) ==
    SectionWeight * CountHits(section_tokens, pl) + IssueWeight * CountHits(issue_tokens, pl)

\* the body of the loop over doc.paragraphs: the score of one paragraph
ParaScore(text, section_tokens, issue_tokens) ==
    ScoreIn(Lower(text), section_tokens, issue_tokens)

BetterOrEqual(score, best_score) == score >= best_score

\* the update of best_score / best_idx
Better(score, best_score) == score > best_score

\* the loop over doc.paragraphs from index i on (0-based as in the source:
\* paragraphs[i + 1] is doc.paragraphs[i]); the result is <<best_idx, best_score>>
RECURSIVE FindLoop(_, _, _, _, _, _)
Scored(paragraphs, i, section_tokens, issue_tokens, best_idx, best_score, score) ==
    IF Better(score, best_score)
    THEN FindLoop(paragraphs, i + 1, section_tokens, issue_tokens, i, score)
    ELSE FindLoop(paragraphs, i + 1, section_tokens, issue_tokens, best_idx, best_score)

FindLoop(paragraphs, i, section_tokens, issue_tokens, best_idx, best_score) ==
    IF i >= Len(paragraphs) THEN <<best_idx, best_score>>
    ELSE Scored(paragraphs, i, section_tokens, issue_tokens, best_idx, best_score,
                ParaScore(paragraphs[i + 1].text, section_tokens, issue_tokens))

MinScore == 1

\* if best_score >= 1: return best_idx; return None
Accept(best) == IF best[2] >= MinScore THEN best[1] ELSE NoneIdx

FindParagraphIndexForIssue(paragraphs, section, issue_text) ==
    Accept(FindLoop(paragraphs, 0, Tokens(section), Tokens(issue_text), NoneIdx, 0))

FindRaises(section, issue_text) == LowerRaises(section) \/ LowerRaises(issue_text)

----------------------------------------------------------------------------
(* docx_utils._insert_after_paragraph and insert_review_notes_and_save *)

\* dict.get(key, default)
Get(iss, key, default) == IF iss[key].t = "absent" THEN default ELSE iss[key]

\* f"REVIEW NOTE (severity={...}): {iss.get('issue')}. Suggestion: {...}"
NoteText(iss) ==
    "REVIEW NOTE (severity=" \o Get(iss, "severity", PyStr("Medium")).v \o "): "
        \o Get(iss, "issue", PyNone).v \o ". Suggestion: "
        \o Get(iss, "suggestion", PyStr("")).v

GeneralText(note_text) == "REVIEW NOTE (general): " \o note_text

\* Characters a run's text cannot hold: python-docx turns tab, newline and
\* carriage return into elements of their own and hands every other character
\* to lxml, which raises ValueError on a control character.  The form feed
\* stands for them.
XmlIllegalChars == {"\f"}
XmlCompatible(text) == \A i \in 1..Len(text) : Ch(text, i) \notin XmlIllegalChars

\* seq with x placed right after its element number n (n = 0: in front)
InsertAt(seq, n, x) == SubSeq(seq, 1, n) \o <<x>> \o SubSeq(seq, n + 1, Len(seq))

\* the reposition done with addprevious instead of addnext
InsertBeforeParagraph(paragraphs, para_index, text, tag) ==
    IF ~XmlCompatible(text)
    THEN Append(paragraphs, [text |-> "", tag |-> tag])
    ELSE InsertAt(paragraphs, para_index, [text |-> text, tag |-> tag])

\* doc.add_paragraph() appends an empty paragraph; add_run(text) fills it, or
\* raises and leaves it empty at the end; p_elm.addnext(after_elm) moves it to
\* right after doc.paragraphs[para_index].  Every exception is swallowed and
\* True is returned either way, so only the paragraphs are the result.
InsertAfterParagraph(paragraphs, para_index, text, tag) ==
    IF ~XmlCompatible(text)
    THEN Append(paragraphs, [text |-> "", tag |-> tag])
    ELSE InsertAt(paragraphs, para_index + 1, [text |-> text, tag |-> tag])

NoTarget == <<"none", 0>>

\* the fallback branch: doc.add_paragraph(general text) appends the
\* paragraph, then its add_run raises on text a run cannot hold
AppendGeneral(paragraphs, note_text, n, idx) ==
    IF XmlCompatible(note_text)
    THEN [paragraphs |-> Append(paragraphs, [text |-> GeneralText(note_text),
                                             tag |-> <<"note", n>>]),
          raised |-> FALSE, path |-> "general", target |-> NoTarget, idx |-> idx]
    ELSE [paragraphs |-> Append(paragraphs, [text |-> "", tag |-> <<"note", n>>]),
          raised |-> TRUE, path |-> "general", target |-> NoTarget, idx |-> idx]

\* if idx is not None: insert the note after paragraph idx; otherwise, as
\* nothing was inserted, the fallback
PlaceNote(paragraphs, note_text, n, idx) ==
    IF idx # NoneIdx
    THEN [paragraphs |-> InsertAfterParagraph(paragraphs, idx, note_text, <<"note", n>>),
          raised |-> FALSE, path |-> "targeted", target |-> paragraphs[idx + 1].tag,
          idx |-> idx]
    ELSE AppendGeneral(paragraphs, note_text, n, NoneIdx)

\* one pass of the loop of insert_review_notes_and_save, for issue number n
ProcessIssue(paragraphs, iss, n) ==
    IF /\ Truthy(Get(iss, "section", PyStr("")))
       /\ ~FindRaises(Get(iss, "section", PyStr("")), Get(iss, "issue", PyStr("")))
    THEN PlaceNote(paragraphs, NoteText(iss), n,
                   FindParagraphIndexForIssue(paragraphs, Get(iss, "section", PyStr("")),
                                              Get(iss, "issue", PyStr(""))))
    ELSE AppendGeneral(paragraphs, NoteText(iss), n, NoneIdx)

----------------------------------------------------------------------------
(* classifier.py *)

\* re.search(r"\b(kw)\b", text): kw, which starts and ends with a word
\* character, stands somewhere in text with no word character on either side
WordSearch(kw, text) ==
    \E i \in 1..(Len(text) - Len(kw) + 1) :
        /\ SubSeq(text, i, i + Len(kw) - 1) = kw
        /\ (i = 1 \/ ~IsWord(text, i - 1))
        /\ (i + Len(kw) - 1 = Len(text) \/ ~IsWord(text, i + Len(kw)))

AnySearch(kws, text) == \E kw \in kws : WordSearch(kw, text)

\* \s of the re module and the characters str.strip() removes
SpaceChars == {" ", "\t", "\n", "\r", "\f"}
IsSpace(s, i) == Ch(s, i) \in SpaceChars

\* s.strip() == ""
IsBlank(s) == \A i \in 1..Len(s) : IsSpace(s, i)

\* len([w for w in re.split(r"\s+", text_l) if w.strip()]): the number of
\* maximal runs of non-space characters
WordCount(s) ==
    Cardinality({a \in 1..Len(s) : ~IsSpace(s, a) /\ (a = 1 \/ IsSpace(s, a - 1))})

ShortDocWords == 40

ArticlesKeywords == {"aoa", "articles of association", "article of association"}
MemorandumKeywords == {"moa", "memorandum of association", "memorandum"}
UboKeywords == {"ubo", "ultimate beneficial owner", "ultimate beneficial owner declaration"}
RegisterKeywords == {"register of members and directors", "register of members",
                     "register of directors"}
ApplicationKeywords == {"incorporation application", "application for incorporation",
                        "application to incorporate", "incorporation form"}

\* the memorandum rule tried before the articles rule
ClassifyMemorandumFirst(text) ==
    LET text_l == Lower(text)
    IN  IF AnySearch(MemorandumKeywords, text_l) THEN "Memorandum of Association"
        ELSE IF AnySearch(ArticlesKeywords, text_l) THEN "Articles of Association"
        ELSE IF AnySearch(UboKeywords, text_l) THEN "UBO Declaration Form"
        ELSE IF AnySearch(RegisterKeywords, text_l) THEN "Register of Members and Directors"
        ELSE IF AnySearch(ApplicationKeywords, text_l) THEN "Incorporation Application Form"
        ELSE IF WordCount(text_l) < ShortDocWords THEN "Short Document"
        ELSE "Commercial Agreement / Other"

classify_doc_type(text) ==
    LET text_l == Lower(text)
    IN  IF AnySearch(ArticlesKeywords, text_l) THEN "Articles of Association"
        ELSE IF AnySearch(MemorandumKeywords, text_l) THEN "Memorandum of Association"
        ELSE IF AnySearch(UboKeywords, text_l) THEN "UBO Declaration Form"
        ELSE IF AnySearch(RegisterKeywords, text_l) THEN "Register of Members and Directors"
        ELSE IF AnySearch(ApplicationKeywords, text_l) THEN "Incorporation Application Form"
        ELSE IF WordCount(text_l) < ShortDocWords THEN "Short Document"
        ELSE "Commercial Agreement / Other"

incorporation_keywords ==
    {"Articles of Association", "Memorandum of Association",
     "Incorporation Application Form", "UBO Declaration Form",
     "Register of Members and Directors"}

MinCoreDocs == 2

\* the core documents counted once per label instead of once per entry
DetectProcessDistinct(predicted_types) ==
    IF Cardinality({predicted_types[i] : i \in 1..Len(predicted_types)}
                       \cap incorporation_keywords) >= MinCoreDocs
    THEN "Company Incorporation"
    ELSE "Unknown / Other"

detect_process(predicted_types) ==
    IF predicted_types = <<>> THEN "Unknown / Other"
    ELSE IF Cardinality({i \in 1..Len(predicted_types) :
                            predicted_types[i] \in incorporation_keywords}) >= MinCoreDocs
         THEN "Company Incorporation"
         ELSE "Unknown / Other"

(* app.py: files and parsing *)

OutName(name) == "reviewed_" \o name

\* a file of tmpdir: absent, a .docx package with its paragraph texts, or
\* bytes python-docx cannot open
NoFile == [there |-> FALSE, ok |-> FALSE, paragraphs |-> <<>>]
DocxFile(texts) == [there |-> TRUE, ok |-> TRUE, paragraphs |-> texts]
CorruptFile == [there |-> TRUE, ok |-> FALSE, paragraphs |-> <<>>]

TextsOf(paragraphs) == [i \in 1..Len(paragraphs) |-> paragraphs[i].text]

\* "\n".join(paras)
RECURSIVE JoinLines(_)
JoinLines(paras) ==
    IF paras = <<>> THEN ""
    ELSE IF Len(paras) = 1 THEN paras[1]
    ELSE paras[1] \o "\n" \o JoinLines(Tail(paras))

\* one pass of the loop of parse_docx_documents, for a file that opens
ParseOne(path, file) ==
    LET paras == SelectSeq(file.paragraphs, LAMBDA t : t # "" /\ ~IsBlank(t))
    IN  [path |-> path, text |-> JoinLines(paras), paragraphs |-> paras,
         predicted_type |-> classify_doc_type(JoinLines(paras))]

\* the loop that writes each upload to tmpdir/<name>, a later upload of the
\* same name over an earlier one
RECURSIVE WriteUploads(_, _)
WriteUploads(fs, ups) ==
    IF ups = <<>> THEN fs
    ELSE WriteUploads([fs EXCEPT ![Head(ups).name] = Head(ups).data], Tail(ups))

RequiredForIncorporation ==
    <<"Articles of Association", "Memorandum of Association",
      "Incorporation Application Form", "UBO Declaration Form",
      "Register of Members and Directors">>

TypesOf(ds) == [i \in 1..Len(ds) |-> ds[i].predicted_type]

RequiredDocs(process) ==
    IF process = "Company Incorporation" THEN RequiredForIncorporation ELSE <<>>

Missing(required_docs, uploaded_doc_types) ==
    SelectSeq(required_docs,
              LAMBDA r : \A i \in 1..Len(uploaded_doc_types) : uploaded_doc_types[i] # r)

----------------------------------------------------------------------------
(* app.py: the issues *)

Issue(document, section, issue, severity, suggestion) ==
    [document |-> document, section |-> section, issue |-> issue,
     severity |-> severity, suggestion |-> suggestion]

JurisdictionIssue(document) ==
    Issue(document, PyStr("Jurisdiction clause"),
          PyStr("Jurisdiction clause does not specify ADGM"), PyStr("High"),
          PyStr("Update jurisdiction to Abu Dhabi Global Market (ADGM) Courts."))

SignatoryIssue(document) ==
    Issue(document, PyStr("Signatory section"),
          PyStr("Missing explicit signatory or signature block"), PyStr("Medium"),
          PyStr("Add signatory name, title and date."))

UnavailableIssue(document) ==
    Issue(document, PyStr("RAG Analysis"), PyStr("Gemini or RAG unavailable."),
          PyStr("Low"),
          PyStr("Set GEMINI_API_KEY and ingest references, or check quota."))

\* the rule-based checks of one document
RuleIssues(d) ==
    LET text_l == Lower(d.text)
        document == PyStr(d.predicted_type)
    IN  (IF ~Contains("adgm", text_l) /\ ~Contains("abu dhabi global market", text_l)
         THEN <<JurisdictionIssue(document)>> ELSE <<>>)
        \o (IF ~Contains("signature", text_l) /\ ~Contains("signed", text_l)
            THEN <<SignatoryIssue(document)>> ELSE <<>>)

PreviewLen == 5000

\* d["text"][:5000]
Preview(text) == SubSeq(text, 1, IF Len(text) < PreviewLen THEN Len(text) ELSE PreviewLen)

RECURSIVE CombinedDocsText(_)
CombinedDocsText(flagged) ==
    IF flagged = <<>> THEN ""
    ELSE LET dd == Head(flagged)
         IN  "DOCUMENT TYPE: " \o dd.predicted_type \o "\n" \o dd.text_preview \o "\n\n"
               \o (IF dd.context # "" THEN "RELEVANT ADGM CONTEXT:\n" \o dd.context \o "\n\n"
                                      ELSE "")
               \o "----\n\n"
               \o CombinedDocsText(Tail(flagged))

\* one request per document instead of one for them all
GeminiCallsPerDocument(flagged) == Len(flagged)

\* the calls of call_gemini_with_context the branch makes: a single call
\* for all documents
GeminiCalls(flagged) == 1

\* the issues added when Gemini is not available
RECURSIVE UnavailableIssues(_)
UnavailableIssues(ds) ==
    IF ds = <<>> THEN <<>>
    ELSE <<UnavailableIssue(PyStr(Head(ds).predicted_type))>> \o UnavailableIssues(Tail(ds))

\* What call_gemini_with_context hands back, as the text and what json.loads
\* makes of the cleaned text: kind "none" is None or "", valid says the
\* cleaned text is JSON, j is the type of the parsed value.  An entry of a
\* parsed dict is a key and its value (a list of items, a single dict, or
\* anything a for loop cannot take issue dicts from); an item is a dict (an
\* issue record) or not.
JItem(rec) == [isdict |-> TRUE, rec |-> rec]
JOther == [isdict |-> FALSE, rec |-> Issue(PyAbsent, PyAbsent, PyAbsent, PyAbsent, PyAbsent)]
JEntry(key, j, items) == [key |-> key, j |-> j, items |-> items]
NoResponse ==
    [kind |-> "none", raw |-> "", valid |-> FALSE, j |-> "", typename |-> "",
     entries |-> <<>>, items |-> <<>>]
NotJson(raw) ==
    [kind |-> "text", raw |-> raw, valid |-> FALSE, j |-> "", typename |-> "",
     entries |-> <<>>, items |-> <<>>]
JDict(raw, entries) ==
    [kind |-> "text", raw |-> raw, valid |-> TRUE, j |-> "dict", typename |-> "dict",
     entries |-> entries, items |-> <<>>]
JList(raw, items) ==
    [kind |-> "text", raw |-> raw, valid |-> TRUE, j |-> "list", typename |-> "list",
     entries |-> <<>>, items |-> items]
JScalar(raw, typename) ==
    [kind |-> "text", raw |-> raw, valid |-> TRUE, j |-> "scalar", typename |-> typename,
     entries |-> <<>>, items |-> <<>>]

RawLimit == 1000

\* the issue of the except branch: gemini_response[:1000]
RawIssue(raw) ==
    Issue(PyStr("RAG"), PyStr("RAG Analysis"),
          PyStr(SubSeq(raw, 1, IF Len(raw) < RawLimit THEN Len(raw) ELSE RawLimit)),
          PyStr("Low"), PyStr("Manual review recommended."))

UnrecognizedIssue(typename) ==
    Issue(PyStr("RAG"), PyStr("RAG Analysis"),
          PyStr("Unrecognized Gemini response structure: <class '" \o typename \o "'>"),
          PyStr("Low"), PyStr("Manual review of Gemini output."))

\* for p in issues: p["document"] = doc_type; issues_found.append(p)
\* (the assignment raises TypeError on a p that is no dict)
RECURSIVE AddItems(_, _, _)
AddItems(found, items, doc_type) ==
    IF items = <<>> THEN [issues |-> found, raised |-> FALSE]
    ELSE IF ~Head(items).isdict THEN [issues |-> found, raised |-> TRUE]
    ELSE AddItems(Append(found, [Head(items).rec EXCEPT !.document = PyStr(doc_type)]),
                  Tail(items), doc_type)

\* for doc_type, issues in parsed.items(): ...
RECURSIVE AddEntries(_, _)
AddEntries(found, entries) ==
    IF entries = <<>> THEN [issues |-> found, raised |-> FALSE]
    ELSE LET e == Head(entries)
             r == IF e.j = "scalar" THEN [issues |-> found, raised |-> TRUE]
                  ELSE AddItems(found, e.items, e.key)
         IN  IF r.raised THEN r ELSE AddEntries(r.issues, Tail(entries))

\* the list branch keeps the dicts as they are
DictItems(items) ==
    LET ds == SelectSeq(items, LAMBDA it : it.isdict)
    IN  [i \in 1..Len(ds) |-> ds[i].rec]

\* the block "Parse gemini response if present"
ParsedInto(found, resp) ==
    IF resp.kind = "none" THEN found
    ELSE IF ~resp.valid THEN Append(found, RawIssue(resp.raw))
    ELSE IF resp.j = "dict"
         THEN LET r == AddEntries(found, resp.entries)
              IN  IF r.raised THEN Append(r.issues, RawIssue(resp.raw)) ELSE r.issues
    ELSE IF resp.j = "list" THEN found \o DictItems(resp.items)
    ELSE Append(found, UnrecognizedIssue(resp.typename))

\* every issue handed to every document
DocIssuesUnfiltered(found, d) == found

\* [i for i in issues_found if i.get("document") == d["predicted_type"]]
DocIssues(found, d) ==
    SelectSeq(found, LAMBDA i : i.document.t = "str" /\ i.document.v = d.predicted_type)

\* the loop of insert_review_notes_and_save over issues number n and later
RECURSIVE AnnotateFrom(_, _, _)
AfterIssue(r, doc_issues, n) ==
    IF r.raised THEN [paragraphs |-> r.paragraphs, raised |-> TRUE]
    ELSE AnnotateFrom(r.paragraphs, doc_issues, n + 1)

AnnotateFrom(paragraphs, doc_issues, n) ==
    IF n > Len(doc_issues) THEN [paragraphs |-> paragraphs, raised |-> FALSE]
    ELSE AfterIssue(ProcessIssue(paragraphs, doc_issues[n], n), doc_issues, n)

\* insert_review_notes_and_save up to doc.save, on a file of tmpdir
Annotated(file, doc_issues) ==
    IF file.ok THEN AnnotateFrom(AsParagraphs(file.paragraphs), doc_issues, 1)
    ELSE [paragraphs |-> <<>>, raised |-> TRUE]

----------------------------------------------------------------------------
(* app.py: one run over the uploaded files *)

MaxUploads == 2

UploadNames == {"a.docx", "reviewed_a.docx"}
Paths == UploadNames \cup {OutName(n) : n \in UploadNames}

DocA == <<"Articles of Association", "Jurisdiction clause: Dubai", "Authorised signatory: J">>
DocB == <<"Memorandum of Association", " ", "ADGM Courts apply. Signed by director.">>
Upload(name, data) == [name |-> name, data |-> data]
UploadPool ==
    { Upload("a.docx", DocxFile(DocA)),
      Upload("reviewed_a.docx", DocxFile(DocB)),
      Upload("a.docx", CorruptFile) }

\* what the caller has of retrieve_relevant_clauses: the joined clauses the
\* store answers with, or "" when the call raises
RetrievedContext(answers) ==
    IF answers THEN "ADGM Companies Regulations 2020, section 12" ELSE ""

LlmIssue ==
    Issue(PyAbsent, PyStr("Jurisdiction clause"), PyStr("Governing law is not ADGM"),
          PyStr("High"), PyStr("Refer disputes to the ADGM Courts."))
LlmLoose == Issue(PyAbsent, PyAbsent, PyStr("Dates are inconsistent"), PyAbsent, PyAbsent)

GeminiReplies ==
    { JDict("{\"Articles of Association\": [{...}], \"Board Resolution\": {...}}",
            <<JEntry("Articles of Association", "list", <<JItem(LlmIssue)>>),
              JEntry("Board Resolution", "obj", <<JItem(LlmLoose)>>)>>),
      JDict("{\"Memorandum of Association\": [{...}, \"see above\"]}",
            <<JEntry("Memorandum of Association", "list", <<JItem(LlmLoose), JOther>>)>>),
      JList("[{...}, \"see above\"]", <<JItem(LlmLoose), JOther>>),
      JScalar("42", "int"),
      NotJson("Sorry, I cannot review these documents.") }

\* the call raises or returns None (both leave gemini_response None), or
\* returns text
GeminiOutcomes == {NoResponse} \cup GeminiReplies

FindIdle ==
    /\ fdoc = <<>>
    /\ fsection = PyNone
    /\ fissue = PyNone
    /\ fresult = NoneIdx

AnnIdle ==
    /\ doc = <<>>
    /\ issues = <<>>
    /\ k = 0
    /\ orig = <<>>
    /\ log = <<>>

ClsIdle ==
    /\ dp_types = <<>>
    /\ dp_result = ""
    /\ cl_text = ""
    /\ cl_result = ""

NoReport ==
    [process |-> "", documents_uploaded |-> 0, required_documents |-> 0,
     missing_documents |-> <<>>, issues_found |-> <<>>]

RunFresh ==
    /\ files = [p \in Paths |-> NoFile]
    /\ stored = [p \in Paths |-> NoFile]
    /\ docs = <<>>
    /\ rag_available = FALSE
    /\ issues_found = <<>>
    /\ flagged_docs_for_rag = <<>>
    /\ prompt = ""
    /\ gemini_response = NoResponse
    /\ report = NoReport
    /\ out_files = <<>>
    /\ notices = <<>>
    /\ annotations = <<>>
    /\ i_doc = 0
    /\ n_retrieve = 0
    /\ n_gemini = 0

RunIdle ==
    /\ uploaded_files = <<>>
    /\ rag_loaded = FALSE
    /\ coll_present = FALSE
    /\ key_present = FALSE
    /\ store_answers = FALSE
    /\ RunFresh

Init ==
    /\ pc = "start"
    /\ uploaded_files \in SeqsUpTo(UploadPool, MaxUploads) \ {<<>>}
    /\ rag_loaded \in BOOLEAN
    /\ coll_present \in {b \in BOOLEAN : b => rag_loaded}
    /\ key_present \in {b \in BOOLEAN : b => rag_loaded}
    /\ store_answers \in {b \in BOOLEAN : b => coll_present}
    /\ RunFresh
    /\ FindIdle
    /\ AnnIdle
    /\ ClsIdle

SavedPaths == [i \in 1..Len(uploaded_files) |-> uploaded_files[i].name]

\* lines 47-56: every upload is written to tmpdir under its own name
SaveUploads ==
    /\ pc = "start"
    /\ files' = WriteUploads(files, uploaded_files)
    /\ stored' = files'
    /\ pc' = "parse"
    /\ UNCHANGED <<uploaded_files, docs, rag_loaded, coll_present, key_present,
                   store_answers, rag_available, issues_found, flagged_docs_for_rag, prompt,
                   gemini_response, report, out_files, notices, annotations, i_doc,
                   n_retrieve, n_gemini>>
    /\ UNCHANGED findVars
    /\ UNCHANGED clsVars
    /\ UNCHANGED annVars

\* lines 57-96: parse_docx_documents opens every saved path in turn, outside
\* any try, so a file that does not open ends the script; then the types, and
\* rag_available
ParseAndClassify ==
    /\ pc = "parse"
    /\ IF \E i \in 1..Len(SavedPaths) : ~files[SavedPaths[i]].ok
       THEN /\ pc' = "aborted"
            /\ UNCHANGED <<docs, rag_available>>
       ELSE /\ docs' = [i \in 1..Len(SavedPaths) |->
                          ParseOne(SavedPaths[i], files[SavedPaths[i]])]
            /\ rag_available' = (rag_loaded /\ coll_present)
            /\ pc' = "scan"
    /\ UNCHANGED <<uploaded_files, files, stored, rag_loaded, coll_present, key_present,
                   store_answers, issues_found, flagged_docs_for_rag, prompt, gemini_response, report,
                   out_files, notices, annotations, i_doc, n_retrieve, n_gemini>>
    /\ UNCHANGED findVars
    /\ UNCHANGED clsVars
    /\ UNCHANGED annVars

\* lines 101-137: one pass of the loop over docs
ScanDocument ==
    /\ pc = "scan"
    /\ i_doc < Len(docs)
    /\ LET d == docs[i_doc + 1]
           retrieves == rag_loaded /\ rag_available
       IN  /\ issues_found' = issues_found \o RuleIssues(d)
           /\ flagged_docs_for_rag' =
                 Append(flagged_docs_for_rag,
                        [predicted_type |-> d.predicted_type,
                         text_preview |-> Preview(d.text),
                         context |-> IF retrieves THEN RetrievedContext(store_answers)
                                                  ELSE ""])
           /\ n_retrieve' = n_retrieve + (IF retrieves THEN 1 ELSE 0)
    /\ i_doc' = i_doc + 1
    /\ pc' = IF i_doc + 1 = Len(docs) THEN "gemini" ELSE "scan"
    /\ UNCHANGED <<uploaded_files, files, stored, docs, rag_loaded, coll_present,
                   key_present, store_answers, rag_available, prompt, gemini_response, report,
                   out_files, notices, annotations, n_gemini>>
    /\ UNCHANGED findVars
    /\ UNCHANGED clsVars
    /\ UNCHANGED annVars

\* lines 139-176: the one Gemini call, or the "unavailable" issues
CallGemini ==
    /\ pc = "gemini"
    /\ IF rag_loaded /\ key_present
       THEN /\ prompt' = CombinedDocsText(flagged_docs_for_rag)
            /\ n_gemini' = n_gemini + GeminiCalls(flagged_docs_for_rag)
            /\ gemini_response' \in GeminiOutcomes
            /\ UNCHANGED issues_found
       ELSE /\ issues_found' = issues_found \o UnavailableIssues(docs)
            /\ gemini_response' = NoResponse
            /\ UNCHANGED <<prompt, n_gemini>>
    /\ pc' = "parse_response"
    /\ UNCHANGED <<uploaded_files, files, stored, docs, rag_loaded, coll_present,
                   key_present, store_answers, rag_available, flagged_docs_for_rag, report, out_files,
                   notices, annotations, i_doc, n_retrieve>>
    /\ UNCHANGED findVars
    /\ UNCHANGED clsVars
    /\ UNCHANGED annVars

\* lines 179-225: the response is parsed into issues_found, the report built
ParseResponse ==
    /\ pc = "parse_response"
    /\ issues_found' = ParsedInto(issues_found, gemini_response)
    /\ LET process == detect_process(TypesOf(docs))
           required_docs == RequiredDocs(process)
       IN  report' = [process |-> process,
                      documents_uploaded |-> Len(TypesOf(docs)),
                      required_documents |-> Len(required_docs),
                      missing_documents |-> Missing(required_docs, TypesOf(docs)),
                      issues_found |-> issues_found']
    /\ i_doc' = 0
    /\ pc' = "annotate"
    /\ UNCHANGED <<uploaded_files, files, stored, docs, rag_loaded, coll_present,
                   key_present, store_answers, rag_available, flagged_docs_for_rag, prompt,
                   gemini_response, out_files, notices, annotations, n_retrieve,
                   n_gemini>>
    /\ UNCHANGED findVars
    /\ UNCHANGED clsVars
    /\ UNCHANGED annVars

\* lines 229-237: one pass of the loop that annotates and saves; the file
\* is loaded from d["path"] as it is now, and doc.save writes or raises
AnnotateDocument ==
    /\ pc = "annotate"
    /\ i_doc < Len(docs)
    /\ LET d == docs[i_doc + 1]
           out_path == OutName(d.path)
           doc_issues == DocIssues(issues_found, d)
           file == files[d.path]
       IN  \E r \in {Annotated(file, doc_issues)}, written \in BOOLEAN :
             LET success == ~r.raised /\ written
             IN  /\ files' = IF success
                             THEN [files EXCEPT ![out_path] = DocxFile(TextsOf(r.paragraphs))]
                             ELSE files
                 /\ out_files' = IF success THEN Append(out_files, out_path) ELSE out_files
                 /\ notices' = IF success THEN notices ELSE Append(notices, d.path)
                 /\ annotations' =
                       Append(annotations,
                              [issues |-> doc_issues, loaded |-> file.paragraphs,
                               paragraphs |-> r.paragraphs, saved |-> success])
    /\ i_doc' = i_doc + 1
    /\ pc' = IF i_doc + 1 = Len(docs) THEN "done" ELSE "annotate"
    /\ UNCHANGED <<uploaded_files, stored, docs, rag_loaded, coll_present, key_present,
                   store_answers, rag_available, issues_found, flagged_docs_for_rag, prompt,
                   gemini_response, report, n_retrieve, n_gemini>>
    /\ UNCHANGED findVars
    /\ UNCHANGED clsVars
    /\ UNCHANGED annVars

Next ==
    \/ SaveUploads
    \/ ParseAndClassify
    \/ ScanDocument
    \/ CallGemini
    \/ ParseResponse
    \/ AnnotateDocument

Spec == Init /\ [][Next]_vars

----------------------------------------------------------------------------
(* The annotation of one document: inputs drawn from small pools *)

MaxIssues == 2

AnyType == PyStr("Articles of Association")

\* issue records as json.loads may hand them over
AnnIssues ==
    { JurisdictionIssue(AnyType),
      SignatoryIssue(AnyType),
      Issue(AnyType, PyAbsent, PyStr("Dates are inconsistent"), PyAbsent, PyAbsent),
      Issue(AnyType, PyInt("7"), PyStr("Clause numbering"), PyStr("Low"), PyStr("")),
      Issue(AnyType, PyStr("Jurisdiction clause"), PyStr("Stray\fcharacter"), PyStr("Low"), PyStr("")),
      Issue(AnyType, PyStr(""), PyStr("Stray\fcharacter"), PyStr("Low"), PyStr("")),
      Issue(AnyType, PyStr("Authorised signatory"), PyStr("Signatory is not named"),
            PyStr("Low"), PyStr("")),
      Issue(AnyType, PyStr("Signatory section"),
            PyStr("Signatory must accept the jurisdiction of Abu Dhabi Global Market Courts"),
            PyStr("High"), PyStr("")) }

AnnDocs ==
    { <<>>,
      <<"Jurisdiction clause: Dubai", "Authorised signatory: J">>,
      <<"ADGM Courts apply.", "", "Jurisdictions vary">> }

InitAnnotate ==
    /\ pc = "load"
    /\ orig \in {AsParagraphs(t) : t \in AnnDocs}
    /\ issues \in SeqsUpTo(AnnIssues, MaxIssues)
    /\ doc = <<>>
    /\ k = 0
    /\ log = <<>>
    /\ FindIdle
    /\ RunIdle
    /\ ClsIdle

\* doc = Document(original_path): the package opens, or raises
LoadDocument ==
    /\ pc = "load"
    /\ \E opens \in BOOLEAN :
          IF opens THEN doc' = orig /\ pc' = "loop"
                   ELSE doc' = doc /\ pc' = "unopened"
    /\ UNCHANGED <<issues, k, orig, log>>
    /\ UNCHANGED findVars
    /\ UNCHANGED clsVars
    /\ UNCHANGED runVars

\* for iss in issues: ...
LoopIssue ==
    /\ pc = "loop"
    /\ k < Len(issues)
    /\ \E r \in {ProcessIssue(doc, issues[k + 1], k + 1)} :
           /\ doc' = r.paragraphs
           /\ log' = Append(log, [path |-> r.path, target |-> r.target,
                                   raised |-> r.raised, idx |-> r.idx])
           /\ pc' = IF r.raised THEN "raised" ELSE "loop"
    /\ k' = k + 1
    /\ UNCHANGED <<issues, orig>>
    /\ UNCHANGED findVars
    /\ UNCHANGED clsVars
    /\ UNCHANGED runVars

\* doc.save(out_path): the file is written, or the write raises
SaveDocument ==
    /\ pc = "loop"
    /\ k = Len(issues)
    /\ \E written \in BOOLEAN : pc' = IF written THEN "saved" ELSE "raised"
    /\ UNCHANGED annVars
    /\ UNCHANGED findVars
    /\ UNCHANGED clsVars
    /\ UNCHANGED runVars

NextAnnotate == LoadDocument \/ LoopIssue \/ SaveDocument

SpecAnnotate == InitAnnotate /\ [][NextAnnotate]_vars

----------------------------------------------------------------------------
(* Properties of the annotation of one document *)

Origs(paragraphs) == SelectSeq(paragraphs, LAMBDA p : p.tag[1] = "orig")
PlacesOf(tag) == {i \in 1..Len(doc) : doc[i].tag = tag}
Opened == pc \in {"loop", "saved", "raised"}

\* the paragraphs that record issue number n: its note text, plain or general
RecordsOf(n) ==
    {i \in PlacesOf(<<"note", n>>) :
        doc[i].text \in {NoteText(issues[n]), GeneralText(NoteText(issues[n]))}}

\* C1 as stated: the saved document holds every original paragraph and
\* exactly one note paragraph per issue, so its length is the original length
\* plus the number of issues, and with no issues it is the input unchanged.
C1_AsStated ==
    pc = "saved" =>
        /\ Len(doc) = Len(orig) + Len(issues)
        /\ Origs(doc) = orig
        /\ \A n \in 1..Len(issues) : Cardinality(RecordsOf(n)) = 1
        /\ (issues = <<>> => doc = orig)

\* C2: the original paragraphs keep their relative order, and the note of a
\* located issue stands after the paragraph the matcher selected for it.
C2_OrderKeptNoteAfterTarget ==
    Opened =>
        /\ Origs(doc) = orig
        /\ \A n \in 1..Len(log) :
              log[n].path = "targeted" =>
                  \A i \in PlacesOf(<<"note", n>>) : \A j \in PlacesOf(log[n].target) : j < i

\* a saved document with a note placed between two original paragraphs
C2_Witness ==
    /\ pc = "saved"
    /\ \E n \in 1..Len(log) :
          /\ log[n].path = "targeted"
          /\ \E i \in RecordsOf(n) : \E j \in PlacesOf(log[n].target) :
                j < i /\ i < Len(doc) /\ doc[i + 1].tag[1] = "orig"

\* the cases in which the documentation promises the general fallback for the
\* issue processed last: empty section, no match, failed lookup, failed insertion
FallbackDue ==
    LET iss == issues[k]
        section == Get(iss, "section", PyStr(""))
    IN  \/ ~Truthy(section)
        \/ FindRaises(section, Get(iss, "issue", PyStr("")))
        \/ log[k].idx = NoneIdx
        \/ ~XmlCompatible(NoteText(iss))

\* C3 as stated: in exactly those cases the general note of the issue is the
\* last paragraph once the issue is processed and the loop goes on; in all
\* other cases the issue has a targeted note.
C3_AsStated ==
    (Opened /\ k >= 1) =>
        IF FallbackDue
        THEN /\ doc[Len(doc)].text = GeneralText(NoteText(issues[k]))
             /\ doc[Len(doc)].tag = <<"note", k>>
             /\ ~log[k].raised
        ELSE /\ log[k].path = "targeted"
             /\ \E i \in PlacesOf(<<"note", k>>) : doc[i].text = NoteText(issues[k])

\* the index _find_paragraph_index_for_issue selects for issue number n on
\* the paragraphs as loaded, NoneIdx when the issue has no target
BatchTarget(n) ==
    LET section == Get(issues[n], "section", PyStr(""))
        issue_text == Get(issues[n], "issue", PyStr(""))
    IN  IF Truthy(section) /\ ~FindRaises(section, issue_text)
        THEN FindParagraphIndexForIssue(orig, section, issue_text)
        ELSE NoneIdx

\* the notes of the issues number n and later whose batch target is idx,
\* in issue order
RECURSIVE BatchNotes(_, _, _)
BatchNotes(targets, idx, n) ==
    IF n > Len(targets) THEN <<>>
    ELSE (IF targets[n] = idx
          THEN <<[text |-> IF idx = NoneIdx THEN GeneralText(NoteText(issues[n]))
                                             ELSE NoteText(issues[n]),
                  tag |-> <<"note", n>>]>>
          ELSE <<>>)
         \o BatchNotes(targets, idx, n + 1)

\* the linear merge: each original paragraph from number i on, followed by
\* its notes, and the general notes at the end
RECURSIVE BatchMerge(_, _)
BatchMerge(targets, i) ==
    IF i > Len(orig) THEN BatchNotes(targets, NoneIdx, 1)
    ELSE <<orig[i]>> \o BatchNotes(targets, i - 1, 1) \o BatchMerge(targets, i + 1)

BatchTargets == [n \in 1..Len(issues) |-> BatchTarget(n)]

\* C13 as stated: when every note could be written, each located issue was
\* matched to the original paragraph the matcher selects on the document as
\* loaded (never to a note), and the saved document equals the batch result.
C13_AsStated ==
    (pc = "saved" /\ \A n \in 1..Len(issues) : XmlCompatible(NoteText(issues[n]))) =>
        \E targets \in {BatchTargets} :
            /\ \A n \in 1..Len(log) :
                  IF targets[n] = NoneIdx THEN log[n].path = "general"
                  ELSE /\ log[n].path = "targeted"
                       /\ log[n].target = <<"orig", targets[n] + 1>>
            /\ doc = BatchMerge(targets, 1)

----------------------------------------------------------------------------
(* Properties of the run *)

Ended == pc \in {"done", "aborted"}
InSeq(x, seq) == \E n \in 1..Len(seq) : seq[n] = x
Count(x, seq) == Cardinality({n \in 1..Len(seq) : seq[n] = x})

\* C6 as stated: when the run has ended, every uploaded document has a saved
\* annotated output or a failure notice of its own.
C6_AsStated ==
    Ended =>
        \A u \in 1..Len(uploaded_files) :
            \/ InSeq(OutName(uploaded_files[u].name), out_files)
            \/ InSeq(uploaded_files[u].name, notices)

\* C7 as stated: every issue of issues_found is handed to the annotation of
\* a document, and only to documents it targets.
C7_AsStated ==
    pc = "done" =>
        /\ \A i \in 1..Len(issues_found) :
              \E j \in 1..Len(annotations) : InSeq(issues_found[i], annotations[j].issues)
        /\ \A j \in 1..Len(annotations) : \A n \in 1..Len(annotations[j].issues) :
              annotations[j].issues[n].document = PyStr(docs[j].predicted_type)

\* C7 amended: an issue is handed to the annotation of exactly the uploaded
\* documents whose predicted type equals its document field, as often as it
\* stands in issues_found; an issue whose document field names the type of
\* no uploaded document is handed to none.
C7_PassedByType ==
    \A j \in 1..Len(annotations) :
        /\ \A n \in 1..Len(annotations[j].issues) :
              /\ annotations[j].issues[n].document = PyStr(docs[j].predicted_type)
              /\ InSeq(annotations[j].issues[n], issues_found)
        /\ \A i \in 1..Len(issues_found) :
              IF issues_found[i].document = PyStr(docs[j].predicted_type)
              THEN Count(issues_found[i], annotations[j].issues)
                     = Count(issues_found[i], issues_found)
              ELSE ~InSeq(issues_found[i], annotations[j].issues)

\* two documents of different types annotated, an issue handed to one and not
\* to the other, and a "RAG" issue in the report handed to neither
C7_Witness ==
    /\ pc = "done"
    /\ Len(annotations) = 2
    /\ docs[1].predicted_type # docs[2].predicted_type
    /\ \E i \in 1..Len(issues_found) :
          /\ InSeq(issues_found[i], annotations[1].issues)
          /\ ~InSeq(issues_found[i], annotations[2].issues)
    /\ \E i \in 1..Len(report.issues_found) :
          /\ report.issues_found[i].document = PyStr("RAG")
          /\ \A j \in 1..Len(annotations) : ~InSeq(report.issues_found[i], annotations[j].issues)

\* C8 as stated: once the uploads are saved no write changes the stored
\* content of an input, and every saved output is the file named reviewed_<input
\* name> and was made from the paragraphs of its own input as uploaded.
C8_AsStated ==
    pc # "start" =>
        /\ \A u \in 1..Len(uploaded_files) :
              files[uploaded_files[u].name] = stored[uploaded_files[u].name]
        /\ \A j \in 1..Len(annotations) :
              annotations[j].saved =>
                  /\ files[OutName(docs[j].path)].there
                  /\ annotations[j].loaded = uploaded_files[j].data.paragraphs

\* C9 as stated: with the vector store or the LLM credentials absent, the
\* finished run holds a severity "Low" issue for every uploaded document.
C9_AsStated ==
    (pc = "done" /\ (~rag_available \/ ~key_present)) =>
        \A j \in 1..Len(docs) :
            \E i \in 1..Len(issues_found) :
                /\ issues_found[i].severity = PyStr("Low")
                /\ issues_found[i].document = PyStr(docs[j].predicted_type)

AfterScan == pc \in {"gemini", "parse_response", "annotate", "done"}

----------------------------------------------------------------------------
(* The matcher on its own: inputs drawn from small pools *)

MaxFindParas == 3

FindTexts == {"ADGM Courts apply.", "Jurisdictions vary", "Authorised signatory: J", ""}
FindSections == {PyStr("Jurisdiction clause"), PyStr("Signatory section"), PyStr(""), PyNone}
FindIssueTexts == {PyStr("Jurisdiction clause does not specify ADGM"),
                   PyStr("Missing explicit signatory or signature block"),
                   PyStr("")}

InitFind ==
    /\ pc = "find"
    /\ AnnIdle
    /\ RunIdle
    /\ ClsIdle
    /\ fdoc \in {AsParagraphs(t) : t \in SeqsUpTo(FindTexts, MaxFindParas)}
    /\ fsection \in FindSections
    /\ fissue \in FindIssueTexts
    /\ fresult = NoneIdx

CallFind ==
    /\ pc = "find"
    /\ fresult' = FindParagraphIndexForIssue(fdoc, fsection, fissue)
    /\ pc' = "found"
    /\ UNCHANGED <<fdoc, fsection, fissue>>
    /\ UNCHANGED annVars
    /\ UNCHANGED clsVars
    /\ UNCHANGED runVars

NextFind == CallFind

SpecFind == InitFind /\ [][NextFind]_vars

----------------------------------------------------------------------------
(* Properties of the matcher *)

\* the score as the documentation states it: 2 per section token found in the
\* lowercased paragraph, 1 per issue-text token found
StatedScore(text, section, issue_text) ==
    LET pl == Lower(text)
        st == Tokens(section)
        it == Tokens(issue_text)
    IN  2 * Cardinality({j \in 1..Len(st) : Contains(st[j], pl)})
          + Cardinality({j \in 1..Len(it) : Contains(it[j], pl)})

FindScores == [i \in 0..(Len(fdoc) - 1) |-> StatedScore(fdoc[i + 1].text, fsection, fissue)]
FindMaxScore == SetMax({0} \cup {FindScores[i] : i \in DOMAIN FindScores})

\* C4: the result is the smallest index whose score equals the maximum score
\* when that maximum is at least 1, and None exactly when the maximum is 0
\* (an empty paragraph list and token-less labels included).
C4_EarliestBestOrNone ==
    pc = "found" =>
        IF FindMaxScore >= 1
        THEN fresult = SetMin({i \in DOMAIN FindScores : FindScores[i] = FindMaxScore})
        ELSE fresult = NoneIdx

\* a tie for the best score between two paragraphs, resolved to the earlier
C4_Witness ==
    /\ pc = "found"
    /\ FindMaxScore >= 2
    /\ \E i, j \in DOMAIN FindScores :
          i < j /\ FindScores[i] = FindMaxScore /\ FindScores[j] = FindMaxScore
                /\ fresult = i

\* the tokens of length > 3 of a paragraph, as a set
TokenSet(x) == {Tokens(x)[j] : j \in 1..Len(Tokens(x))}
LabelTokens == TokenSet(fsection) \cup TokenSet(fissue)

\* C5 as stated: no token shared between the labels' token sets and the token
\* set of any paragraph implies None.
C5_AsStated ==
    (pc = "found" /\ \A i \in 1..Len(fdoc) : LabelTokens \cap TokenSet(PyStr(fdoc[i].text)) = {})
        => fresult = NoneIdx

\* C5 amended: if no token of the section label or the issue text occurs as a
\* substring of any lowercased paragraph, the result is None.
C5_NoSubstringHitIsNone ==
    (pc = "found" /\ \A i \in 1..Len(fdoc) : \A t \in LabelTokens : ~Contains(t, Lower(fdoc[i].text)))
        => fresult = NoneIdx

\* labels with tokens, a non-empty document, no hit anywhere, and None returned
C5_Witness ==
    /\ pc = "found"
    /\ LabelTokens # {}
    /\ \E i \in 1..Len(fdoc) : fdoc[i].text # ""
    /\ \A i \in 1..Len(fdoc) : \A t \in LabelTokens : ~Contains(t, Lower(fdoc[i].text))
    /\ fresult = NoneIdx

----------------------------------------------------------------------------
(* detect_process on its own: label lists drawn from a small pool *)

MaxLabels == 3

\* the five core labels, a label outside the set, and a core label in
\* another case
DetectLabels ==
    incorporation_keywords \cup {"Short Document", "articles of association"}

InitDetect ==
    /\ pc = "detect"
    /\ dp_types \in SeqsUpTo(DetectLabels, MaxLabels)
    /\ dp_result = ""
    /\ cl_text = ""
    /\ cl_result = ""
    /\ FindIdle
    /\ AnnIdle
    /\ RunIdle

CallDetect ==
    /\ pc = "detect"
    /\ dp_result' = detect_process(dp_types)
    /\ pc' = "detected"
    /\ UNCHANGED <<dp_types, cl_text, cl_result>>
    /\ UNCHANGED findVars
    /\ UNCHANGED annVars
    /\ UNCHANGED runVars

NextDetect == CallDetect

SpecDetect == InitDetect /\ [][NextDetect]_vars

(* Properties of detect_process *)

\* the five labels as the documentation lists them
StatedCoreLabels ==
    {"Articles of Association", "Memorandum of Association",
     "Incorporation Application Form", "UBO Declaration Form",
     "Register of Members and Directors"}

\* the entries of a list that are core labels, counted with multiplicity
RECURSIVE CoreCount(_)
CoreCount(labels) ==
    IF labels = <<>> THEN 0
    ELSE (IF Head(labels) \in StatedCoreLabels THEN 1 ELSE 0) + CoreCount(Tail(labels))

\* C11: detect_process returns "Company Incorporation" exactly when at least
\* 2 entries of the list, counted with multiplicity, are among the 5 core
\* labels, and "Unknown / Other" otherwise, the empty list included.
C11_IncorporationIffTwoCore ==
    pc = "detected" =>
        /\ Cardinality(StatedCoreLabels) = 5
        /\ dp_result = (IF CoreCount(dp_types) >= 2 THEN "Company Incorporation"
                                                   ELSE "Unknown / Other")
        /\ (dp_types = <<>> => dp_result = "Unknown / Other")

\* the same core label twice makes an incorporation
C11_Witness ==
    /\ pc = "detected"
    /\ Len(dp_types) = 2
    /\ dp_types[1] = dp_types[2]
    /\ dp_types[1] \in StatedCoreLabels
    /\ dp_result = "Company Incorporation"

----------------------------------------------------------------------------
(* classify_doc_type on its own: texts put together from a small pool *)

MaxFragments == 3

Filler20 == "a b c d e f g h i j k l m n o p q r s t"
Filler19 == "a b c d e f g h i j k l m n o p q r s"

\* keywords in other cases, a keyword inside a longer word, keywords next to
\* punctuation and to an underscore, and fillers of 20 and of 19 words
ClassifyFragments ==
    { "AoA", "Memorandums", "MOA-2 of the UBO", "Ultimate Beneficial Owner",
      "ubo_x Register of Directors", "Application to Incorporate", Filler20, Filler19 }

RECURSIVE JoinWords(_)
JoinWords(frags) ==
    IF frags = <<>> THEN ""
    ELSE IF Len(frags) = 1 THEN frags[1]
    ELSE frags[1] \o " " \o JoinWords(Tail(frags))

InitClassify ==
    /\ pc = "classify"
    /\ cl_text \in {JoinWords(f) : f \in SeqsUpTo(ClassifyFragments, MaxFragments)}
    /\ cl_result = ""
    /\ dp_types = <<>>
    /\ dp_result = ""
    /\ FindIdle
    /\ AnnIdle
    /\ RunIdle

CallClassify ==
    /\ pc = "classify"
    /\ cl_result' = classify_doc_type(cl_text)
    /\ pc' = "classified"
    /\ UNCHANGED <<cl_text, dp_types, dp_result>>
    /\ UNCHANGED findVars
    /\ UNCHANGED annVars
    /\ UNCHANGED runVars

NextClassify == CallClassify

SpecClassify == InitClassify /\ [][NextClassify]_vars

(* Properties of classify_doc_type *)

\* a keyword stands in the text in any case, as a whole word
Present(kw, text) ==
    \E a \in 1..Len(text) :
        /\ a + Len(kw) - 1 <= Len(text)
        /\ (a > 1 => Ch(text, a - 1) \notin WordChars)
        /\ (a + Len(kw) <= Len(text) => Ch(text, a + Len(kw)) \notin WordChars)
        /\ Lower(SubSeq(text, a, a + Len(kw) - 1)) = kw

\* the rules in the order the documentation gives them
StatedRules ==
    << [label |-> "Articles of Association",
        kws |-> {"aoa", "articles of association", "article of association"}],
       [label |-> "Memorandum of Association",
        kws |-> {"moa", "memorandum of association", "memorandum"}],
       [label |-> "UBO Declaration Form",
        kws |-> {"ubo", "ultimate beneficial owner", "ultimate beneficial owner declaration"}],
       [label |-> "Register of Members and Directors",
        kws |-> {"register of members and directors", "register of members",
                 "register of directors"}],
       [label |-> "Incorporation Application Form",
        kws |-> {"incorporation application", "application for incorporation",
                 "application to incorporate", "incorporation form"}] >>

StatedLabels ==
    {StatedRules[r].label : r \in 1..Len(StatedRules)}
        \cup {"Short Document", "Commercial Agreement / Other"}

RuleMatches(r, text) == \E kw \in StatedRules[r].kws : Present(kw, text)
Matching(text) == {r \in 1..Len(StatedRules) : RuleMatches(r, text)}

\* whitespace-delimited tokens: the places where a token ends
StatedWordCount(text) ==
    Cardinality({a \in 1..Len(text) :
                    /\ Ch(text, a) \notin SpaceChars
                    /\ (a = Len(text) \/ Ch(text, a + 1) \in SpaceChars)})

\* C12: classify_doc_type returns the label of the first matching rule in
\* the order Articles, Memorandum, UBO, Register, Incorporation Application,
\* then "Short Document" for fewer than 40 tokens, then "Commercial Agreement
\* / Other"; the result is fixed by the patterns present and the word count
\* and is one of the 7 labels.
C12_FirstMatchingRule ==
    pc = "classified" =>
        /\ Cardinality(StatedLabels) = 7
        /\ cl_result \in StatedLabels
        /\ \E m \in {Matching(cl_text)} :
              cl_result =
                  (IF m # {} THEN StatedRules[SetMin(m)].label
                   ELSE IF StatedWordCount(cl_text) < 40 THEN "Short Document"
                   ELSE "Commercial Agreement / Other")

\* a text of 40 words or more in which a later rule and an earlier rule both
\* match: the earlier rule wins over the later one and over the word count
C12_Witness ==
    /\ pc = "classified"
    /\ StatedWordCount(cl_text) >= 40
    /\ Cardinality(Matching(cl_text)) >= 2
    /\ 1 \notin Matching(cl_text)
    /\ cl_result = "Memorandum of Association"

====
